---- MODULE Spec2Model ----
(***************************************************************************)
(* Email Unsubscribe Agent: the classification engine and batch endpoint   *)
(* of the analyze route (classifyEmail, generateDemoEmails, POST) and the  *)
(* submit handler of the page (handleSubmit).                              *)
(*                                                                         *)
(* JavaScript strings are TLA+ strings: Len, SubSeq and \o act on them as  *)
(* length, substring and concatenation.  An optional value (string |       *)
(* undefined, RegExpMatchArray | null) is a sequence of zero or one        *)
(* elements.  The two emoji of the demo subjects are written "**" (two     *)
(* UTF-16 units each, no letter, no white space).                          *)
(***************************************************************************)
EXTENDS Integers, Sequences, FiniteSets, TLC

VARIABLES
  email,       \* classifyEmail: its argument
  result,      \* classifyEmail: its return value, <<>> before the call
  inbox,       \* the emails that results.map (line 181) runs over
  request,     \* the request to /api/analyze in flight, <<>> when there is none
  reply,       \* what the request settles with, <<>> while it is pending
  config,      \* Home: useState({provider: 'gmail', ...}), the form
  processing,  \* Home: useState(false)
  results,     \* Home: useState([])
  status,      \* Home: useState(null), <<>> for null
  stats,       \* Home: useState({total: 0, ...})
  pc           \* handleSubmit: the await it stands at, "idle" when not running

vars == <<email, result, inbox, request, reply,
          config, processing, results, status, stats, pc>>

-----------------------------------------------------------------------------
(* Strings                                                                 *)

\* The letters String.prototype.toLowerCase changes (ASCII: the inputs hold no
\* other cased letter).
LowerOf ==
  "A" :> "a" @@ "B" :> "b" @@ "C" :> "c" @@ "D" :> "d" @@ "E" :> "e" @@
  "F" :> "f" @@ "G" :> "g" @@ "H" :> "h" @@ "I" :> "i" @@ "J" :> "j" @@
  "K" :> "k" @@ "L" :> "l" @@ "M" :> "m" @@ "N" :> "n" @@ "O" :> "o" @@
  "P" :> "p" @@ "Q" :> "q" @@ "R" :> "r" @@ "S" :> "s" @@ "T" :> "t" @@
  "U" :> "u" @@ "V" :> "v" @@ "W" :> "w" @@ "X" :> "x" @@ "Y" :> "y" @@
  "Z" :> "z"

\* One UTF-16 unit through toLowerCase.
toLowerCaseChar(c) == IF c \in DOMAIN LowerOf THEN LowerOf[c] ELSE c

\* String.prototype.toLowerCase, unit by unit (the string is split in halves).
RECURSIVE toLowerCase(_)
toLowerCase(s) ==
  IF Len(s) = 0 THEN ""
  ELSE IF Len(s) = 1 THEN toLowerCaseChar(s)
  ELSE toLowerCase(SubSeq(s, 1, Len(s) \div 2))
       \o toLowerCase(SubSeq(s, Len(s) \div 2 + 1, Len(s)))

\* String.prototype.includes
includes(s, k) ==
  \E i \in 1..(Len(s) - Len(k) + 1) : SubSeq(s, i, i + Len(k) - 1) = k

\* The regular expression class \s (the members the inputs draw on).
WhiteSpace == {" ", "\t", "\n", "\r", "\f"}

IsSpace(s, i) == SubSeq(s, i, i) \in WhiteSpace

\* A literal of a /i pattern matched at position i of s.
LiteralAt(s, i, lit) ==
  /\ i >= 1
  /\ i + Len(lit) - 1 <= Len(s)
  /\ toLowerCase(SubSeq(s, i, i + Len(lit) - 1)) = lit

\* The end of the longest run of [^\s] that starts at position i (i - 1 when
\* the run is empty): the unit before the first white space, or the last one.
RunEnd(s, i) ==
  LET stops == {j \in i..(Len(s) + 1) : j = Len(s) + 1 \/ IsSpace(s, j)}
  IN  (CHOOSE j \in stops : \A k \in stops : j <= k) - 1

-----------------------------------------------------------------------------
(* classifyEmail                                                           *)

\* /https?:\/\/[^\s]+unsubscribe[^\s]*/i tried at position i: the position
\* after "https?://", 0 when the scheme does not match there.  "s?" takes the
\* "s" when it is there; without it the next unit must be ":".
SchemeEnd(s, i) ==
  IF ~LiteralAt(s, i, "http") THEN 0
  ELSE IF LiteralAt(s, i + 4, "s") /\ LiteralAt(s, i + 5, "://") THEN i + 8
  ELSE IF LiteralAt(s, i + 4, "://") THEN i + 7
  ELSE 0

\* "[^\s]*unsubscribe": the run before the literal may be empty.
UnsubscribeStartsAnyRun(s, p) ==
  {k \in p..(RunEnd(s, p) + 1) : LiteralAt(s, k, "unsubscribe")}

\* Where "[^\s]+" may stop so that "unsubscribe" follows: it takes at least one
\* unit from p and never passes the end of the run.
UnsubscribeStarts(s, p) ==
  {k \in (p + 1)..(RunEnd(s, p) + 1) : LiteralAt(s, k, "unsubscribe")}

Max(S) == CHOOSE m \in S : \A x \in S : x <= m

\* The end of the match tried at position i, 0 when there is none.  "[^\s]+"
\* is greedy: it gives back units until "unsubscribe" matches, so the last
\* start wins; "[^\s]*" then takes the rest of the run.
MatchEnd(s, i) ==
  LET p == SchemeEnd(s, i)
  IN  IF p = 0 \/ UnsubscribeStarts(s, p) = {} THEN 0
      ELSE RunEnd(s, Max(UnsubscribeStarts(s, p)) + Len("unsubscribe"))

\* String.prototype.match without the g flag: the leftmost match, or null.
unsubscribeMatch(s) ==
  LET starts == {i \in 1..Len(s) : MatchEnd(s, i) # 0}
  IN  IF starts = {} THEN <<>>
      ELSE LET i == CHOOSE i \in starts : \A j \in starts : i <= j
           IN  <<SubSeq(s, i, MatchEnd(s, i))>>

\* The marketing table without its entry "subscribe".
marketingKeywordsNoSubscribe ==
  << "unsubscribe", "promotional", "sale", "discount", "offer", "deal",
     "newsletter", "marketing", "advertisement", "promo", "limited time",
     "buy now", "shop now", "exclusive", "free shipping", "save now",
     "special offer", "notification", "update", "digest" >>

marketingKeywords ==
  << "unsubscribe", "promotional", "sale", "discount", "offer", "deal",
     "newsletter", "marketing", "advertisement", "promo", "limited time",
     "buy now", "shop now", "exclusive", "free shipping", "save now",
     "special offer", "subscribe", "notification", "update", "digest" >>

importantKeywords ==
  << "invoice", "receipt", "payment", "account", "security", "alert",
     "verification", "confirm", "reset password", "bank", "statement",
     "bill", "transaction", "urgent", "action required", "contract",
     "meeting", "appointment", "deadline", "legal", "tax" >>

\* One hit for the subject and one for the body.
RECURSIVE keywordHitsPerField(_, _, _, _)
keywordHitsPerField(keywords, n, subject, body) ==
  IF n = 0 THEN 0
  ELSE keywordHitsPerField(keywords, n - 1, subject, body)
       + (IF includes(subject, keywords[n]) THEN 1 ELSE 0)
       + (IF includes(body, keywords[n]) THEN 1 ELSE 0)

\* keywords.forEach(keyword => { if (subject.includes(keyword) ||
\* body.includes(keyword)) score++ }), from entry n down to entry 1.
RECURSIVE keywordHits(_, _, _, _)
keywordHits(keywords, n, subject, body) ==
  IF n = 0 THEN 0
  ELSE keywordHits(keywords, n - 1, subject, body)
       + (IF includes(subject, keywords[n]) \/ includes(body, keywords[n])
            THEN 1 ELSE 0)

SenderBonus == 2

LinkBonus == 3

marketingSender(from) ==
  includes(from, "noreply") \/ includes(from, "no-reply") \/ includes(from, "marketing")

importantSender(from) ==
  includes(from, "admin") \/ includes(from, "support") \/ includes(from, "billing")

\* const unsubscribeLink = unsubscribeMatch ? unsubscribeMatch[0] : undefined,
\* the match being taken on the lower-cased body.
unsubscribeLink(e) == unsubscribeMatch(toLowerCase(e.body))

\* marketingScore as line 86 reads it.
marketingScore(e) ==
  keywordHits(marketingKeywords, Len(marketingKeywords),
              toLowerCase(e.subject), toLowerCase(e.body))
  + (IF marketingSender(toLowerCase(e.from)) THEN SenderBonus ELSE 0)
  + (IF unsubscribeLink(e) # <<>> THEN LinkBonus ELSE 0)

\* importantScore as line 86 reads it.
importantScore(e) ==
  keywordHits(importantKeywords, Len(importantKeywords),
              toLowerCase(e.subject), toLowerCase(e.body))
  + (IF importantSender(toLowerCase(e.from)) THEN SenderBonus ELSE 0)

\* A tie counted as marketing.
isMarketingOrTie(e) == marketingScore(e) >= importantScore(e)

isMarketing(e) == marketingScore(e) > importantScore(e)

\* The action chosen by the link before the classification.
classifyEmailLinkAction(e) ==
  LET marketing == isMarketing(e)
      link      == unsubscribeLink(e)
  IN  [ id             |-> e.id,
        from           |-> e.from,
        subject        |-> e.subject,
        date           |-> e.date,
        classification |-> IF marketing THEN "marketing" ELSE "important",
        action         |-> IF link # <<>>
                             THEN "Unsubscribe available"
                             ELSE (IF marketing
                                     THEN "Mark as spam or delete"
                                     ELSE "Keep and respond professionally if needed"),
        reason         |-> IF marketing
                             THEN "Marketing email detected (score: "
                                  \o ToString(marketingScore(e))
                                  \o "). Contains promotional content."
                             ELSE "Important email detected (score: "
                                  \o ToString(importantScore(e))
                                  \o "). Requires attention.",
        unsubscribeLink |-> link ]

classifyEmail(e) ==
  LET marketing == isMarketing(e)
      link      == unsubscribeLink(e)
  IN  [ id             |-> e.id,
        from           |-> e.from,
        subject        |-> e.subject,
        date           |-> e.date,
        classification |-> IF marketing THEN "marketing" ELSE "important",
        action         |-> IF marketing
                             THEN (IF link # <<>>
                                     THEN "Unsubscribe available"
                                     ELSE "Mark as spam or delete")
                             ELSE "Keep and respond professionally if needed",
        reason         |-> IF marketing
                             THEN "Marketing email detected (score: "
                                  \o ToString(marketingScore(e))
                                  \o "). Contains promotional content."
                             ELSE "Important email detected (score: "
                                  \o ToString(importantScore(e))
                                  \o "). Requires attention.",
        unsubscribeLink |-> link ]

-----------------------------------------------------------------------------
(* generateDemoEmails                                                      *)

demoEmails ==
  << [ id |-> "1", from |-> "newsletter@techcompany.com",
       subject |-> "** Exclusive 50% OFF Sale - Limited Time!",
       date |-> "now-2h",
       body |-> "Hi there! Don't miss our biggest sale of the year. Get 50% off all products. Shop now! Click here to unsubscribe: https://techcompany.com/unsubscribe?id=123",
       headers |-> <<>> ],
     [ id |-> "2", from |-> "billing@yourbank.com",
       subject |-> "Your Monthly Statement is Ready",
       date |-> "now-24h",
       body |-> "Your bank statement for this month is now available. Please review your transactions. Contact us if you have any questions.",
       headers |-> <<>> ],
     [ id |-> "3", from |-> "noreply@deals.com",
       subject |-> "Today Only: Free Shipping on Everything!",
       date |-> "now-5h",
       body |-> "Amazing deal alert! Free shipping on all orders today only. Don't wait! Unsubscribe here: https://deals.com/unsubscribe",
       headers |-> <<>> ],
     [ id |-> "4", from |-> "support@company.com",
       subject |-> "Security Alert: New Login Detected",
       date |-> "now-0.5h",
       body |-> "We detected a new login to your account from a new device. If this wasn't you, please reset your password immediately.",
       headers |-> <<>> ],
     [ id |-> "5", from |-> "marketing@fashion.com",
       subject |-> "New Arrivals You'll Love **",
       date |-> "now-12h",
       body |-> "Check out our latest collection! Spring fashion is here. Browse now and enjoy exclusive discounts. Unsubscribe: https://fashion.com/unsub",
       headers |-> <<>> ],
     [ id |-> "6", from |-> "admin@workspace.com",
       subject |-> "Action Required: Verify Your Account",
       date |-> "now-3h",
       body |-> "Your account verification is pending. Please verify your email address within 24 hours to maintain access to your account.",
       headers |-> <<>> ] >>

\* The entries of the template every generated email keeps; id and date are
\* overwritten (lines 163-164).  The date is written as its distance from
\* Date.now().
generateDemoEmails(count) ==
  [ k \in 1..count |->
      LET i == k - 1
          template == demoEmails[(i % Len(demoEmails)) + 1]
      IN  [ template EXCEPT !.id = ToString(i + 1),
                            !.date = "now-" \o ToString(i) \o "h" ] ]

-----------------------------------------------------------------------------
(* POST                                                                    *)

\* StrWhiteSpaceChar, which parseInt skips at the start of its input.
StrWhiteSpace == {" ", "\t", "\n", "\r", "\f"}

DigitValue ==
  "0" :> 0 @@ "1" :> 1 @@ "2" :> 2 @@ "3" :> 3 @@ "4" :> 4 @@
  "5" :> 5 @@ "6" :> 6 @@ "7" :> 7 @@ "8" :> 8 @@ "9" :> 9 @@
  "a" :> 10 @@ "b" :> 11 @@ "c" :> 12 @@ "d" :> 13 @@ "e" :> 14 @@ "f" :> 15

\* Whether unit i of s is a digit of radix R.
IsDigit(s, i, R) ==
  LET c == toLowerCaseChar(SubSeq(s, i, i))
  IN  c \in DOMAIN DigitValue /\ DigitValue[c] < R

\* The value of the digits s[from..to] in radix R.
RECURSIVE DigitsValue(_, _, _, _)
DigitsValue(s, from, to, R) ==
  IF to < from THEN 0
  ELSE DigitsValue(s, from, to - 1, R) * R
       + DigitValue[toLowerCaseChar(SubSeq(s, to, to))]

\* parseInt(string) with no radix argument (ECMAScript 19.2.5): <<>> is NaN.
\* undefined is read as the string "undefined".
parseInt(string) ==
  LET inputString == IF string = <<>> THEN "undefined" ELSE string[1]
      n     == Len(inputString)
      nonWs == {i \in 1..(n + 1) : i = n + 1 \/ SubSeq(inputString, i, i) \notin StrWhiteSpace}
      start == CHOOSE i \in nonWs : \A j \in nonWs : i <= j
      signed == start <= n /\ SubSeq(inputString, start, start) \in {"+", "-"}
      sign  == IF start <= n /\ SubSeq(inputString, start, start) = "-" THEN -1 ELSE 1
      s1    == IF signed THEN start + 1 ELSE start
      hex   == LiteralAt(inputString, s1, "0x")
      R     == IF hex THEN 16 ELSE 10
      s2    == IF hex THEN s1 + 2 ELSE s1
      ends  == {i \in s2..(n + 1) : i = n + 1 \/ ~IsDigit(inputString, i, R)}
      end   == CHOOSE i \in ends : \A j \in ends : i <= j
  IN  IF end = s2 THEN <<>>
      ELSE <<sign * DigitsValue(inputString, s2, end - 1, R)>>

DefaultMaxEmails == 50

MaxEmailsCap == 100

\* parseInt(config.maxEmails) || 50: NaN and 0 are falsy.
orDefault(x) == IF x = <<>> \/ x[1] = 0 THEN DefaultMaxEmails ELSE x[1]

\* The cap left out.
maxEmailsOfNoCap(cfg) == orDefault(parseInt(cfg.maxEmails))

\* Math.min(..., 100)
maxEmailsOf(cfg) ==
  LET n == orDefault(parseInt(cfg.maxEmails))
  IN  IF n < MaxEmailsCap THEN n ELSE MaxEmailsCap

\* r.classification === 'marketing' && r.unsubscribeLink (an empty string is
\* falsy)
unsubscribable(r) ==
  /\ r.classification = "marketing"
  /\ r.unsubscribeLink # <<>>
  /\ Len(r.unsubscribeLink[1]) > 0

IsMarketingResult(r) == r.classification = "marketing"

IsImportantResult(r) == r.classification = "important"

\* marketing counted as the results that carry a link.
computeStatsLinkCount(rs, autoUnsubscribe) ==
  [ total        |-> Len(rs),
    marketing    |-> Cardinality({i \in 1..Len(rs) : rs[i].unsubscribeLink # <<>>}),
    important    |-> Cardinality({i \in 1..Len(rs) : IsImportantResult(rs[i])}),
    unsubscribed |-> IF autoUnsubscribe
                      THEN Cardinality({i \in 1..Len(rs) : unsubscribable(rs[i])})
                      ELSE 0 ]

\* The stats object (lines 184-191); results.filter(...).length counts.
computeStats(rs, autoUnsubscribe) ==
  [ total        |-> Len(rs),
    marketing    |-> Cardinality({i \in 1..Len(rs) : IsMarketingResult(rs[i])}),
    important    |-> Cardinality({i \in 1..Len(rs) : IsImportantResult(rs[i])}),
    unsubscribed |-> IF autoUnsubscribe
                      THEN Cardinality({i \in 1..Len(rs) : unsubscribable(rs[i])})
                      ELSE 0 ]

\* Every result that carries a link rewritten, whatever its classification.
simulateUnsubscribeAnyLink(rs, autoUnsubscribe) ==
  IF autoUnsubscribe
    THEN [ i \in 1..Len(rs) |->
             IF rs[i].unsubscribeLink # <<>>
               THEN [rs[i] EXCEPT !.action = "Successfully unsubscribed"]
               ELSE rs[i] ]
    ELSE rs

\* if (config.autoUnsubscribe) results.forEach(result => { ... })
simulateUnsubscribe(rs, autoUnsubscribe) ==
  IF autoUnsubscribe
    THEN [ i \in 1..Len(rs) |->
             IF unsubscribable(rs[i])
               THEN [rs[i] EXCEPT !.action = "Successfully unsubscribed"]
               ELSE rs[i] ]
    ELSE rs

\* Lines 180-202: classify, count, rewrite, respond.
analyze(emails, autoUnsubscribe) ==
  LET rs == [i \in 1..Len(emails) |-> classifyEmail(emails[i])]
  IN  [ ok |-> TRUE, status |-> 200, statusText |-> "OK",
        json |-> << [ results |-> simulateUnsubscribe(rs, autoUnsubscribe),
                      stats   |-> computeStats(rs, autoUnsubscribe) ] >> ]

\* The catch branch: status 500, details the message of the error thrown.
failure500 ==
  [ ok |-> FALSE, status |-> 500, statusText |-> "Internal Server Error",
    json |-> << [ error   |-> "Failed to analyze emails",
                  details |-> "Unexpected end of JSON input" ] >> ]

\* export async function POST(request): the route answers the request in
\* flight.  The body's json is <<>> when request.json() throws.
POST ==
  /\ request # <<>>
  /\ reply = <<>>
  /\ UNCHANGED <<email, result, inbox, request,
                 config, processing, results, status, stats, pc>>
  /\ LET body == request[1]
     IN  IF body.json = <<>>
           THEN reply' = <<failure500>>
           ELSE LET cfg == body.json[1]
                IN  reply' = <<analyze(generateDemoEmails(maxEmailsOf(cfg)),
                                       cfg.autoUnsubscribe)>>

-----------------------------------------------------------------------------
(* Home                                                                    *)

initialConfig == [maxEmails |-> <<"50">>, autoUnsubscribe |-> FALSE]

initialStats == [total |-> 0, marketing |-> 0, important |-> 0, unsubscribed |-> 0]

\* The state of Home after its first render, nothing in flight.
HomeInit ==
  /\ config = initialConfig
  /\ processing = FALSE
  /\ results = <<>>
  /\ status = <<>>
  /\ stats = initialStats
  /\ pc = "idle"

\* What the user types into "Maximum Emails to Analyze".
FormMaxEmails == {"50", "3"}

\* onChange of the maxEmails input
setMaxEmails ==
  \E v \in FormMaxEmails :
    /\ config.maxEmails # <<v>>
    /\ config' = [config EXCEPT !.maxEmails = <<v>>]
    /\ UNCHANGED <<email, result, inbox, request, reply,
                   processing, results, status, stats, pc>>

\* onChange of the autoUnsubscribe checkbox
setAutoUnsubscribe ==
  /\ config' = [config EXCEPT !.autoUnsubscribe = ~config.autoUnsubscribe]
  /\ UNCHANGED <<email, result, inbox, request, reply,
                 processing, results, status, stats, pc>>

\* handleSubmit up to its first await (lines 33-43).  The submit button is
\* disabled while processing.
handleSubmit ==
  /\ pc = "idle"
  /\ ~processing
  /\ processing' = TRUE
  /\ results' = <<>>
  /\ status' = <<[type |-> "processing",
                  message |-> "Connecting to email server and analyzing emails..."]>>
  /\ request' = <<[json |-> <<config>>]>>
  /\ reply' = <<>>
  /\ pc' = "fetch"
  /\ UNCHANGED <<email, result, inbox, config, stats>>

\* fetch rejects: the network fails.
fetchRejects ==
  /\ pc = "fetch"
  /\ request # <<>>
  /\ reply = <<>>
  /\ reply' = <<[rejected |-> TRUE, message |-> "Failed to fetch"]>>
  /\ UNCHANGED <<email, result, inbox, request,
                 config, processing, results, status, stats, pc>>

\* fetch resolves with a response that is not OK and did not come from the
\* route's handler.
fetchNotOk ==
  /\ pc = "fetch"
  /\ request # <<>>
  /\ reply = <<>>
  /\ reply' = <<[ok |-> FALSE, status |-> 502, statusText |-> "Bad Gateway",
                 json |-> <<>>]>>
  /\ UNCHANGED <<email, result, inbox, request,
                 config, processing, results, status, stats, pc>>

\* The catch block without the finally block.
catchNoFinally(message) ==
  /\ status' = <<[type |-> "error", message |-> message]>>
  /\ pc' = "idle"
  /\ request' = <<>>
  /\ reply' = <<>>
  /\ UNCHANGED <<email, result, inbox, config, processing, results, stats>>

\* catch (error) { setStatus({type: 'error', ...}) } finally
\* { setProcessing(false) }
catchFinally(message) ==
  /\ status' = <<[type |-> "error", message |-> message]>>
  /\ processing' = FALSE
  /\ pc' = "idle"
  /\ request' = <<>>
  /\ reply' = <<>>
  /\ UNCHANGED <<email, result, inbox, config, results, stats>>

\* handleSubmit from the settling of fetch to its second await (lines 39-49).
afterFetch ==
  /\ pc = "fetch"
  /\ reply # <<>>
  /\ LET response == reply[1]
     IN  IF "rejected" \in DOMAIN response
           THEN catchFinally(response.message)
         ELSE IF ~response.ok
           THEN catchFinally("Failed to analyze emails: " \o response.statusText)
         ELSE /\ pc' = "json"
              /\ UNCHANGED <<email, result, inbox, request, reply,
                             config, processing, results, status, stats>>

\* handleSubmit after response.json() resolves (lines 49-63).
afterJson ==
  /\ pc = "json"
  /\ LET data == reply[1].json[1]
     IN  /\ results' = data.results
         /\ stats' = data.stats
         /\ status' = <<[type |-> "success",
                         message |-> "Analyzed " \o ToString(data.stats.total)
                                     \o " emails. Found "
                                     \o ToString(data.stats.marketing)
                                     \o " marketing emails."]>>
  /\ processing' = FALSE
  /\ pc' = "idle"
  /\ request' = <<>>
  /\ reply' = <<>>
  /\ UNCHANGED <<email, result, inbox, config>>

\* response.json() rejects: the body cannot be read.
jsonRejects ==
  /\ pc = "json"
  /\ catchFinally("Failed to fetch")

-----------------------------------------------------------------------------
(* Inputs                                                                  *)

\* The longest body, in fragments.
MaxFragments == 3

\* The longest batch handed to the aggregation.
MaxBatch == 3

BodyFragments == {"https://", "http://", "Unsubscribe", " ", "Shop.com/"}

RECURSIVE BodiesOf(_)
BodiesOf(n) ==
  IF n = 0 THEN {""}
  ELSE BodiesOf(n - 1) \cup {b \o f : b \in BodiesOf(n - 1), f \in BodyFragments}

Bodies == BodiesOf(MaxFragments)

Subjects == {"", "Unsubscribe SALE", "Invoice, Receipt & Payment"}

Senders == {"x@example.com", "NoReply@marketing.shop.com", "Billing-Support@yourbank.com"}

Emails ==
  {[id |-> "1", from |-> f, subject |-> s, date |-> "now-0h", body |-> b,
    headers |-> <<>>] : f \in Senders, s \in Subjects, b \in Bodies}

\* The emails batches are made of: marketing with a link, marketing without,
\* important with a link, important without.
BatchPool ==
  << [id |-> "0", from |-> "x@example.com", subject |-> "",
      date |-> "now-0h", body |-> "https://Shop.com/Unsubscribe", headers |-> <<>>],
     [id |-> "0", from |-> "x@example.com", subject |-> "Unsubscribe SALE",
      date |-> "now-0h", body |-> "", headers |-> <<>>],
     [id |-> "0", from |-> "Billing-Support@yourbank.com",
      subject |-> "Invoice, Receipt & Payment",
      date |-> "now-0h", body |-> "https://Shop.com/Unsubscribe", headers |-> <<>>],
     [id |-> "0", from |-> "x@example.com", subject |-> "",
      date |-> "now-0h", body |-> "", headers |-> <<>>] >>

\* Every batch of at most MaxBatch emails of the pool, ids by position.
Batches ==
  UNION { { [i \in 1..n |-> [BatchPool[pick[i]] EXCEPT !.id = ToString(i)]]
            : pick \in [1..n -> 1..Len(BatchPool)] } : n \in 0..MaxBatch }

\* config.maxEmails as a request carries it: <<>> when the field is absent.
MaxEmailsInputs ==
  { <<>>, <<"">>, <<"abc">>, <<"NaN">>, <<"Infinity">>, <<"0">>, <<"-0">>,
    <<"0x">>, <<"-4">>, <<"1">>, <<"2">>, <<"3">>, <<"5">>, <<"6">>, <<"7">>,
    <<"007">>, <<" 8">>, <<"+9">>, <<"4.9">>, <<"1e3">>, <<"12">>, <<"13abc">>,
    <<"0x1F">>, <<"50">>, <<"99">>, <<"100">>, <<"101">>, <<"250">> }

RequestBodies ==
  { [json |-> <<>>] }
  \cup { [json |-> <<[maxEmails |-> m, autoUnsubscribe |-> a]>>]
         : m \in MaxEmailsInputs, a \in BOOLEAN }

-----------------------------------------------------------------------------
(* Specifications                                                          *)

\* classifyEmail applied to one email.
InitClassify ==
  /\ email \in Emails
  /\ result = <<>>
  /\ inbox = <<>>
  /\ request = <<>>
  /\ reply = <<>>
  /\ HomeInit

Classify ==
  /\ result = <<>>
  /\ result' = <<classifyEmail(email)>>
  /\ UNCHANGED <<email, inbox, request, reply,
                 config, processing, results, status, stats, pc>>

SpecClassify == InitClassify /\ [][Classify]_vars

\* Lines 180-202 applied to a batch of emails.
InitBatch ==
  /\ email = <<>>
  /\ result = <<>>
  /\ inbox \in Batches
  /\ \E a \in BOOLEAN :
       request = <<[json |-> <<[maxEmails |-> <<>>, autoUnsubscribe |-> a]>>]>>
  /\ reply = <<>>
  /\ HomeInit

Aggregate ==
  /\ reply = <<>>
  /\ reply' = <<analyze(inbox, request[1].json[1].autoUnsubscribe)>>
  /\ UNCHANGED <<email, result, inbox, request,
                 config, processing, results, status, stats, pc>>

SpecBatch == InitBatch /\ [][Aggregate]_vars

\* The route answering one request.
InitPost ==
  /\ email = <<>>
  /\ result = <<>>
  /\ inbox = <<>>
  /\ request \in {<<b>> : b \in RequestBodies}
  /\ reply = <<>>
  /\ HomeInit

SpecPost == InitPost /\ [][POST]_vars

\* The page and the route behind it.
InitHome ==
  /\ email = <<>>
  /\ result = <<>>
  /\ inbox = <<>>
  /\ request = <<>>
  /\ reply = <<>>
  /\ HomeInit

Settle == fetchRejects \/ fetchNotOk \/ POST

ReadBody == afterJson \/ jsonRejects

NextHome ==
  \/ setMaxEmails
  \/ setAutoUnsubscribe
  \/ handleSubmit
  \/ POST
  \/ fetchRejects
  \/ fetchNotOk
  \/ afterFetch
  \/ afterJson
  \/ jsonRejects

\* A request settles, and a settled promise resumes the handler.
SpecHome ==
  /\ InitHome
  /\ [][NextHome]_vars
  /\ WF_vars(Settle)
  /\ WF_vars(afterFetch)
  /\ WF_vars(ReadBody)

Spec == SpecHome

-----------------------------------------------------------------------------
(* Properties                                                              *)

\* The entries of a table found in the lower-cased subject or body, as a set.
TableHits(table, e) ==
  Cardinality({k \in {table[n] : n \in 1..Len(table)} :
                 \/ includes(toLowerCase(e.subject), k)
                 \/ includes(toLowerCase(e.body), k)})

\* The body holds "http://" or "https://", then at least `least` units that
\* are no white space, then "unsubscribe", letters in any casing.
HasToken(body, least) ==
  \E i \in 1..Len(body) :
    \E p \in (IF LiteralAt(body, i, "http://") THEN {i + 7} ELSE {})
             \cup (IF LiteralAt(body, i, "https://") THEN {i + 8} ELSE {}) :
      \E k \in (p + least)..Len(body) :
        /\ \A j \in p..(k - 1) : SubSeq(body, j, j) \notin {" ", "\t", "\n", "\r", "\f"}
        /\ LiteralAt(body, k, "unsubscribe")

\* A decimal digit can be read at the start of s, after white space and one
\* sign.
NumericPrefix(s) ==
  \E i \in 1..Len(s) :
    /\ SubSeq(s, i, i) \in {"0", "1", "2", "3", "4", "5", "6", "7", "8", "9"}
    /\ \E w \in 0..(i - 1) :
         /\ \A j \in 1..w : SubSeq(s, j, j) \in {" ", "\t", "\n", "\r", "\f"}
         /\ \/ i = w + 1
            \/ i = w + 2 /\ SubSeq(s, w + 1, w + 1) \in {"+", "-"}

Classified == result # <<>>

\* The route answered with a batch.
Answered == reply # <<>> /\ reply[1].ok

\* C1: the classification is 'marketing' exactly when marketingScore is
\* strictly greater than importantScore; every tie, 0/0 included, is
\* 'important'; there is no third value.
C1_StrictTieBreak ==
  Classified =>
    LET r == result[1]
        m == marketingScore(email)
        i == importantScore(email)
    IN  /\ r.classification \in {"marketing", "important"}
        /\ (r.classification = "marketing") <=> (m > i)
        /\ (m = i) => (r.classification = "important")

\* An empty subject and body from a sender without bonus: 0/0, important.
C1_Witness ==
  /\ Classified
  /\ email.subject = "" /\ email.body = "" /\ email.from = "x@example.com"
  /\ marketingScore(email) = 0 /\ importantScore(email) = 0
  /\ result[1].classification = "important"

\* C4: a link that is found is the first match in the original body, copied
\* verbatim: a substring of email.body with its casing.
C4_LinkVerbatim ==
  (Classified /\ result[1].unsubscribeLink # <<>>) =>
    /\ includes(email.body, result[1].unsubscribeLink[1])
    /\ result[1].unsubscribeLink = unsubscribeMatch(email.body)

\* C5 as stated: a link is reported exactly for the bodies that hold the
\* scheme, a run that may be empty, then "unsubscribe".
C5_EmptyRunMatches ==
  Classified => (HasToken(email.body, 0) <=> result[1].unsubscribeLink # <<>>)

\* C5 as amended: a link is reported exactly for the bodies that hold the
\* scheme, a run of at least one unit that is no white space, then
\* "unsubscribe" (any casing); a body with no such token yields no link.
C5_NonEmptyRunMatches ==
  Classified => (HasToken(email.body, 1) <=> result[1].unsubscribeLink # <<>>)

\* "unsubscribe" right after the scheme, matched only through a later one.
C5_Witness ==
  /\ Classified
  /\ LiteralAt(email.body, 1, "https://unsubscribe")
  /\ HasToken(email.body, 1)
  /\ result[1].unsubscribeLink # <<>>

\* C6: marketingScore is the number of marketing entries found in the subject
\* or the body, each once, plus 2 for a marketing sender (once), plus 3 exactly
\* when a link is found; importantScore is the count over the important table
\* plus 2 for an important sender (once); "unsubscribe" without a URL gives
\* the keyword hit, no link and no +3.
C6_Scores ==
  Classified =>
    LET link == result[1].unsubscribeLink
        from == toLowerCase(email.from)
        body == toLowerCase(email.body)
        mSender == IF \E k \in {"noreply", "no-reply", "marketing"} : includes(from, k)
                     THEN 2 ELSE 0
        iSender == IF \E k \in {"admin", "support", "billing"} : includes(from, k)
                     THEN 2 ELSE 0
    IN  /\ marketingScore(email)
             = TableHits(marketingKeywords, email) + mSender
               + (IF link # <<>> THEN 3 ELSE 0)
        /\ importantScore(email) = TableHits(importantKeywords, email) + iSender
        /\ (includes(body, "unsubscribe") /\ ~includes(body, "http://")
              /\ ~includes(body, "https://"))
             => /\ link = <<>>
                /\ TableHits(marketingKeywords, email) >= 1
                /\ marketingScore(email) = TableHits(marketingKeywords, email) + mSender

\* An entry in both fields, a sender with two marketing marks, a link.
C6_Witness ==
  /\ Classified
  /\ includes(toLowerCase(email.subject), "unsubscribe")
  /\ includes(toLowerCase(email.body), "unsubscribe")
  /\ includes(toLowerCase(email.from), "noreply")
  /\ includes(toLowerCase(email.from), "marketing")
  /\ result[1].unsubscribeLink # <<>>
  /\ marketingScore(email) = 8

\* C7: the action follows the classification and the link, and the reason
\* embeds the winning score, which is never the smaller one.
C7_ActionAndReason ==
  Classified =>
    LET r == result[1]
        m == marketingScore(email)
        i == importantScore(email)
        marketing == r.classification = "marketing"
        found == r.unsubscribeLink # <<>>
    IN  /\ (r.action = "Unsubscribe available") <=> (marketing /\ found)
        /\ (r.action = "Mark as spam or delete") <=> (marketing /\ ~found)
        /\ (r.action = "Keep and respond professionally if needed")
             <=> (r.classification = "important")
        /\ r.reason = IF marketing
                        THEN "Marketing email detected (score: " \o ToString(m)
                             \o "). Contains promotional content."
                        ELSE "Important email detected (score: " \o ToString(i)
                             \o "). Requires attention."
        /\ IF marketing THEN m >= i ELSE i >= m

\* An important email that carries a link keeps the important action.
C7_Witness ==
  /\ Classified
  /\ result[1].classification = "important"
  /\ result[1].unsubscribeLink # <<>>
  /\ result[1].action = "Keep and respond professionally if needed"
  /\ result[1].reason = "Important email detected (score: 5). Requires attention."

\* C9: an email with a link has marketingScore >= 5, so it is important only
\* with importantScore >= 5.
C9_LinkFloor ==
  (Classified /\ result[1].unsubscribeLink # <<>>) =>
    /\ marketingScore(email) >= 5
    /\ (result[1].classification = "important") => (importantScore(email) >= 5)

\* A link at the floor, tied 5/5 and classified important.
C9_Witness ==
  /\ Classified
  /\ result[1].unsubscribeLink # <<>>
  /\ marketingScore(email) = 5
  /\ importantScore(email) = 5
  /\ result[1].classification = "important"

\* C2: in every batch answered, total is the number of results, marketing
\* and important add up to total, and unsubscribed is at most marketing.
C2_StatsAddUp ==
  Answered =>
    LET d == reply[1].json[1]
    IN  /\ d.stats.total = Len(d.results)
        /\ d.stats.marketing + d.stats.important = d.stats.total
        /\ d.stats.unsubscribed <= d.stats.marketing

\* A full batch with autoUnsubscribe: some marketing email has no link.
C2_Witness ==
  /\ Answered
  /\ request[1].json[1].autoUnsubscribe
  /\ reply[1].json[1].stats.total = 100
  /\ reply[1].json[1].stats.unsubscribed > 0
  /\ reply[1].json[1].stats.unsubscribed < reply[1].json[1].stats.marketing

\* C3: unsubscribed is the number of results rewritten to 'Successfully
\* unsubscribed'; with autoUnsubscribe these are exactly the marketing results
\* that carry a link, and an important result with a link is left as
\* classified; without it unsubscribed is 0 and no result is rewritten.
C3_UnsubscribedIsRewritten ==
  reply # <<>> =>
    LET d     == reply[1].json[1]
        auto  == request[1].json[1].autoUnsubscribe
        plain == [i \in 1..Len(inbox) |-> classifyEmail(inbox[i])]
        done  == {i \in 1..Len(d.results) :
                    d.results[i].action = "Successfully unsubscribed"}
    IN  /\ d.stats.unsubscribed = Cardinality(done)
        /\ Len(d.results) = Len(inbox)
        /\ auto =>
             \A i \in 1..Len(d.results) :
               /\ (i \in done) <=> (/\ d.results[i].classification = "marketing"
                                    /\ d.results[i].unsubscribeLink # <<>>)
               /\ (i \notin done) => (d.results[i] = plain[i])
        /\ ~auto => (d.stats.unsubscribed = 0 /\ d.results = plain)

\* One batch with a rewritten result and an important result with a link.
C3_Witness ==
  /\ reply # <<>>
  /\ request[1].json[1].autoUnsubscribe
  /\ \E i \in 1..Len(reply[1].json[1].results) :
       reply[1].json[1].results[i].action = "Successfully unsubscribed"
  /\ \E i \in 1..Len(reply[1].json[1].results) :
       /\ reply[1].json[1].results[i].classification = "important"
       /\ reply[1].json[1].results[i].unsubscribeLink # <<>>
       /\ reply[1].json[1].results[i].action
            = "Keep and respond professionally if needed"

\* C8: total never exceeds 100, and it is 50 when maxEmails is absent or no
\* number can be read from it.
C8_CapAndDefault ==
  Answered =>
    LET m     == request[1].json[1].maxEmails
        total == reply[1].json[1].stats.total
    IN  /\ total <= 100
        /\ (m = <<>> \/ ~NumericPrefix(m[1])) => (total = 50)

\* A request for more than the cap.
C8_Witness ==
  /\ Answered
  /\ request[1].json[1].maxEmails = <<"250">>
  /\ reply[1].json[1].stats.total = 100

\* C10: every submit ends with processing false and status 'success' or
\* 'error'; a failure leaves results empty and stats as they were, and stats
\* change only to the stats of a successful analysis.
C10_SubmitSettles ==
  /\ processing ~> (~processing /\ status # <<>>
                      /\ status[1].type \in {"success", "error"})
  /\ [](~processing => (status = <<>> \/ status[1].type \in {"success", "error"}))
  /\ [][(processing /\ ~processing' /\ status'[1].type = "error")
          => (results = <<>> /\ results' = <<>> /\ stats' = stats)]_vars
  /\ [][(stats' # stats)
          => (/\ status'[1].type = "success"
              /\ stats' = reply[1].json[1].stats
              /\ results' = reply[1].json[1].results)]_vars

\* A failed submit after a successful one: no results, the earlier stats.
C10_Witness ==
  /\ ~processing
  /\ status # <<>>
  /\ status[1].type = "error"
  /\ results = <<>>
  /\ stats.total > 0

====
